---- MODULE Spec2Model ----
(***************************************************************************)
(* Model of src/simple_sieve/SIEVE.C: the Sieve of Eratosthenes benchmark  *)
(* for the Intel 8086 / MS-DOS (Borland C++).  The state is main's locals, *)
(* the Options structure, the sieve buffer, standard output and the        *)
(* environment (clock, allocator).  One action per loop iteration or       *)
(* statement group of parse_args and main.                                 *)
(*                                                                         *)
(* Types of the target: int is 16 bits and size_t is 16 bits (values are   *)
(* wrapped by ToInt and ToSizeT); long is 32 bits, which is also the width *)
(* of the integers of the model checker, whose evaluation stops with an    *)
(* error on overflow instead of wrapping.                                  *)
(***************************************************************************)
EXTENDS Integers, Sequences, FiniteSets

(* ------------------------------------------------------------------ *)
(* Program constants                                                  *)
(* ------------------------------------------------------------------ *)

DEFAULT_LIMIT == 1000
DEFAULT_SECONDS == 5
BITSPERBYTE == 8

\* Width of int and of size_t on the 8086 target.
INT_BITS == 16
SIZE_BITS == 16

(* ------------------------------------------------------------------ *)
(* Bounds of the model                                                *)
(* ------------------------------------------------------------------ *)

\* Clock ticks per second (the C library's CLK_TCK), scaled down.
CLK_TCK == 2
\* clock() returns a reading in 0..MaxClock.
MaxClock == 3
\* Largest limit of the kernel sweep of the input family.
MaxLimit == 34
\* Passes a run may perform while the clock has not reached the deadline.
MaxPasses == 3
\* Length of the free argument sequences of the input family.
MaxArgs == 2
\* Number of mode flags of the input family.
MaxModes == 3

(* ------------------------------------------------------------------ *)
(* C arithmetic                                                       *)
(* ------------------------------------------------------------------ *)

Pow2(n) == 2 ^ n

\* Conversion to a signed int of INT_BITS bits (two's complement wrap).
ToInt(x) ==
    LET m == x % Pow2(INT_BITS)
    IN  IF m >= Pow2(INT_BITS - 1) THEN m - Pow2(INT_BITS) ELSE m

\* Conversion to size_t (unsigned, SIZE_BITS bits).
ToSizeT(x) == x % Pow2(SIZE_BITS)

\* C integer division (truncation toward zero), divisor > 0.
CDiv(a, b) == IF a >= 0 THEN a \div b ELSE -((-a) \div b)

\* C remainder, divisor > 0.
CMod(a, b) == a - b * CDiv(a, b)

(* ------------------------------------------------------------------ *)
(* Strings: an argument is a sequence of one-character strings        *)
(* ------------------------------------------------------------------ *)

NUL == "NUL"

\* argv[i][k] of C: the k-th character (from 0), NUL at the terminator.
CharAt(s, k) == IF k + 1 <= Len(s) THEN s[k + 1] ELSE NUL

DigitChars == {"0", "1", "2", "3", "4", "5", "6", "7", "8", "9"}

DigitVal(c) ==
    CASE c = "0" -> 0 [] c = "1" -> 1 [] c = "2" -> 2 [] c = "3" -> 3
      [] c = "4" -> 4 [] c = "5" -> 5 [] c = "6" -> 6 [] c = "7" -> 7
      [] c = "8" -> 8 [] c = "9" -> 9

RECURSIVE SkipSpace(_, _)
SkipSpace(s, k) ==
    IF k <= Len(s) /\ s[k] = " " THEN SkipSpace(s, k + 1) ELSE k

RECURSIVE ScanDigits(_, _, _)
ScanDigits(s, k, acc) ==
    IF k <= Len(s) /\ s[k] \in DigitChars
    THEN ScanDigits(s, k + 1, acc * 10 + DigitVal(s[k]))
    ELSE acc

\* The value the C library's decimal scan gives: leading blanks, an
\* optional sign, then digits up to the first other character (0 if none).
ScanNumber(s) ==
    LET k0  == SkipSpace(s, 1)
        sgn == IF k0 <= Len(s) /\ s[k0] \in {"-", "+"} THEN 1 ELSE 0
        v   == ScanDigits(s, k0 + sgn, 0)
    IN  IF sgn = 1 /\ s[k0] = "-" THEN -v ELSE v

atol(s) == ScanNumber(s)

atoi(s) == ToInt(ScanNumber(s))

(* ------------------------------------------------------------------ *)
(* Bit manipulation macros                                            *)
(* ------------------------------------------------------------------ *)

\* Byte of the buffer that bit n lives in.
ByteIndex(n) == CDiv(n, BITSPERBYTE)

\* (b >> k) & 1
BitOf(b, k) == (b \div Pow2(k)) % 2

GET_BIT(array, n) == BitOf(array[ByteIndex(n)], CMod(n, BITSPERBYTE))

SET_BIT(array, n) ==
    LET b == array[ByteIndex(n)]
        k == CMod(n, BITSPERBYTE)
    IN  [array EXCEPT ![ByteIndex(n)] =
            IF BitOf(b, k) = 1 THEN b ELSE b + Pow2(k)]

\* memset(sieve, 0, size)
memset0(n) == [k \in 0 .. n - 1 |-> 0]

(* ------------------------------------------------------------------ *)
(* Expected results                                                   *)
(* ------------------------------------------------------------------ *)

results_dictionary ==
    << [limit |-> 10,       count |-> 4],
       [limit |-> 100,      count |-> 25],
       [limit |-> 1000,     count |-> 168],
       [limit |-> 10000,    count |-> 1229],
       [limit |-> 100000,   count |-> 9592],
       [limit |-> 1000000,  count |-> 78498],
       [limit |-> 10000000, count |-> 664579] >>

RECURSIVE ValidateFrom(_, _, _)
ValidateFrom(k, limit, count) ==
    IF k > Len(results_dictionary) THEN FALSE
    ELSE IF results_dictionary[k].limit = limit
         THEN results_dictionary[k].count = count
         ELSE ValidateFrom(k + 1, limit, count)

\* Variant: a lookup that stops at the limit and never compares the count.
validate_limit_only(limit, count) ==
    \E k \in 1 .. Len(results_dictionary) : results_dictionary[k].limit = limit

validate_results(limit, count) == ValidateFrom(1, limit, count)

(* ------------------------------------------------------------------ *)
(* State                                                              *)
(* ------------------------------------------------------------------ *)

VARIABLES
    argv,           \* argv[1..argc-1]; argv[0], the program name, is left out
    arg_i,          \* parse_args: i
    warning_shown,  \* parse_args: warning_shown
    options,        \* main: options
    exit_code,      \* main: exit_code, << >> until parse_args writes it, then << code >>
    pc,             \* position in main
    ret,            \* << >> while main runs, then << the value it returned >>
    out,            \* standard output, one entry per message
    size, count, passes, sieve,
    start_time, end_time, tick_duration, elapsed_time,
    i, j,
    valid,          \* what the "Prime validator" line printed
    now,            \* environment: the last reading of clock()
    budget,         \* environment: passes performed before the deadline, at most
    npass,          \* history: number of passes completed
    mono,           \* history: no reading of clock() was below the one before
    below,          \* history: after every earlier pass the elapsed ticks were below tick_duration
    maxbyte         \* history: largest byte index of the buffer read or written

vars == << argv, arg_i, warning_shown, options, exit_code, pc, ret, out,
           size, count, passes, sieve, start_time, end_time, tick_duration,
           elapsed_time, i, j, valid, now, budget, npass, mono, below,
           maxbyte >>

parse_vars == << arg_i, warning_shown, options, exit_code >>

main_vars == << size, count, passes, sieve, start_time, end_time,
                tick_duration, elapsed_time, i, j, valid >>

env_vars == << now, budget, npass, mono, below, maxbyte >>


argc == Len(argv) + 1

(* ------------------------------------------------------------------ *)
(* Input family                                                       *)
(* ------------------------------------------------------------------ *)

DigitChar(d) ==
    CASE d = 0 -> "0" [] d = 1 -> "1" [] d = 2 -> "2" [] d = 3 -> "3"
      [] d = 4 -> "4" [] d = 5 -> "5" [] d = 6 -> "6" [] d = 7 -> "7"
      [] d = 8 -> "8" [] d = 9 -> "9"

RECURSIVE Decimal(_)
Decimal(n) ==
    IF n < 10 THEN << DigitChar(n) >>
    ELSE Append(Decimal(n \div 10), DigitChar(n % 10))

\* The argument a user types for the number n.
NumArg(n) == IF n < 0 THEN << "-" >> \o Decimal(-n) ELSE Decimal(n)

Flag(c) == << "/", c >>

SeqsUpTo(S, n) == UNION { [1 .. k -> S] : k \in 0 .. n }

\* One-shot runs over every limit of the sweep, and of a table limit.
SweepArgv ==
    { << Flag("l"), NumArg(n), Flag("1") >> : n \in (0 .. MaxLimit) \cup {100} }

\* Timed runs: limit and seconds given.
SecondsVals == {-1, 0, 1, 2}

TimedArgv ==
    { << Flag("l"), NumArg(n), Flag("s"), NumArg(k) >> :
        n \in {2, 10, 17}, k \in SecondsVals }

\* Mode flags in every order, after a limit.
ModeArgs == { Flag("1"), Flag("d"), Flag("D"), Flag("q") }

ModeArgv ==
    { << Flag("L"), NumArg(3), Flag("s"), NumArg(1) >> \o s :
        s \in SeqsUpTo(ModeArgs, MaxModes) }

\* Arbitrary arguments, valid or not, after a limit and /1.
RawArgs ==
    { Flag("1"), Flag("S"), Flag("q"), Flag("Q"), Flag("h"), Flag("H"),
      Flag("?"), Flag("z"), Flag("l"), Flag("s"), << "/" >>, << "x" >>,
      << >>, NumArg(7), Flag("h") \o << "e", "l", "p" >> }

RawArgv ==
    { << Flag("l"), NumArg(9), Flag("1") >> \o s :
        s \in SeqsUpTo(RawArgs, MaxArgs) }

\* In the first place: arguments parse_args stops at, and /l.
StopArgs ==
    { Flag("h"), Flag("?"), Flag("z"), Flag("l"), << "/" >>,
      << "x" >>, << >>, NumArg(7) }

StopArgv == { << a >> \o s : a \in StopArgs, s \in SeqsUpTo(RawArgs, 1) }

\* All defaults but the mode: limit 1000.
DefaultArgv == { << Flag("1") >> }

\* A limit whose buffer size, 65537, does not fit the 16-bit size_t.
LargeArgv == { << Flag("l"), NumArg(1048576), Flag("1") >> }

ArgvSet ==
    SweepArgv \cup TimedArgv \cup ModeArgv \cup RawArgv \cup StopArgv
        \cup DefaultArgv \cup LargeArgv

(* ------------------------------------------------------------------ *)
(* Initial state: main entered, lines 189-193 done                    *)
(* ------------------------------------------------------------------ *)

InitWith(args, b) ==
    /\ argv \in args
    /\ arg_i = 1
    /\ warning_shown = FALSE
    /\ options = [limit |-> DEFAULT_LIMIT, seconds |-> DEFAULT_SECONDS,
                  oneshot |-> FALSE, dragrace |-> FALSE, quiet |-> FALSE]
    /\ exit_code = << >>
    /\ pc = "parse"
    /\ ret = << >>
    /\ out = << >>
    /\ size = 0 /\ count = 0 /\ passes = 0 /\ sieve = << >>
    /\ start_time = 0 /\ end_time = 0 /\ tick_duration = 0
    /\ elapsed_time = 0
    /\ i = 0 /\ j = 0
    /\ valid = ""
    /\ now = 0
    /\ budget = b
    /\ npass = 0
    /\ mono = TRUE
    /\ below = TRUE
    /\ maxbyte = -1

Init == InitWith(ArgvSet, MaxPasses)

(* ------------------------------------------------------------------ *)
(* parse_args                                                         *)
(* ------------------------------------------------------------------ *)

\* printf: every message is a pair of its text and its argument ("" if none).
Emit(msgs) == out' = out \o msgs

Msg(text) == << text, "" >>

ONESHOT_DRAGRACE_MSG == "Warning: /1 and /d are mutually exclusive."

\* print_help
print_help == << Msg("Usage") >>

\* Variant: the warning is printed but *other_ptr is left set.
warn_without_unset(other, msg, selected_name) ==
    IF ~other
    THEN [other |-> other, printed |-> << >>, returned |-> FALSE]
    ELSE [other |-> other, printed |-> << << msg, selected_name >> >>,
          returned |-> TRUE]

\* unset_if_set: the new value of *other_ptr, what it prints, what it returns.
unset_if_set(other, msg, selected_name) ==
    IF ~other
    THEN [other |-> other, printed |-> << >>, returned |-> FALSE]
    ELSE [other |-> FALSE, printed |-> << << msg, selected_name >> >>,
          returned |-> TRUE]

\* The switch of parse_args on argv[i][1].
IsLimitFlag(c) == c \in {"l", "L"}
IsSecondsFlag(c) == c \in {"s", "S"}
IsOneshotFlag(c) == c = "1"
IsQuietFlag(c) == c \in {"q", "Q"}
IsDragraceFlag(c) == c \in {"d", "D"}
\* Variant: a switch without the case '?'.
IsLetterHelpFlag(c) == c \in {"h", "H"}
IsHelpFlag(c) == c \in {"h", "H", "?"}

\* Exit codes parse_args writes.
HelpExitCode == 0
UsageExitCode == 1

InParse == pc = "parse" /\ arg_i < argc
IsSwitch == CharAt(argv[arg_i], 0) = "/"
SwitchChar == CharAt(argv[arg_i], 1)

\* main, line 196: return exit_code.
ReturnFromParse(code) ==
    /\ exit_code' = << code >>
    /\ ret' = << code >>
    /\ pc' = "done"

\* case 'l': with a value following.
ParseLimit ==
    /\ InParse /\ IsSwitch /\ IsLimitFlag(SwitchChar)
    /\ argc > arg_i + 1
    /\ options' = [options EXCEPT !.limit = atol(argv[arg_i + 1])]
    /\ arg_i' = arg_i + 2
    /\ UNCHANGED << argv, warning_shown, exit_code, pc, ret, out >>
    /\ UNCHANGED main_vars /\ UNCHANGED env_vars

\* case 's': with a value following.
ParseSeconds ==
    /\ InParse /\ IsSwitch /\ IsSecondsFlag(SwitchChar)
    /\ argc > arg_i + 1
    /\ options' = [options EXCEPT !.seconds = atoi(argv[arg_i + 1])]
    /\ arg_i' = arg_i + 2
    /\ UNCHANGED << argv, warning_shown, exit_code, pc, ret, out >>
    /\ UNCHANGED main_vars /\ UNCHANGED env_vars

\* case '1'
ParseOneshot ==
    /\ InParse /\ IsSwitch /\ IsOneshotFlag(SwitchChar)
    /\ LET u == unset_if_set(options.dragrace, ONESHOT_DRAGRACE_MSG, "oneshot")
       IN  /\ options' = [options EXCEPT !.oneshot = TRUE, !.dragrace = u.other]
           /\ warning_shown' = (warning_shown \/ u.returned)
           /\ Emit(u.printed)
    /\ arg_i' = arg_i + 1
    /\ UNCHANGED << argv, exit_code, pc, ret >>
    /\ UNCHANGED main_vars /\ UNCHANGED env_vars

\* case 'q'
ParseQuiet ==
    /\ InParse /\ IsSwitch /\ IsQuietFlag(SwitchChar)
    /\ options' = [options EXCEPT !.quiet = TRUE]
    /\ arg_i' = arg_i + 1
    /\ UNCHANGED << argv, warning_shown, exit_code, pc, ret, out >>
    /\ UNCHANGED main_vars /\ UNCHANGED env_vars

\* case 'd'
ParseDragrace ==
    /\ InParse /\ IsSwitch /\ IsDragraceFlag(SwitchChar)
    /\ LET u == unset_if_set(options.oneshot, ONESHOT_DRAGRACE_MSG, "dragrace")
       IN  /\ options' = [options EXCEPT !.dragrace = TRUE, !.oneshot = u.other]
           /\ warning_shown' = (warning_shown \/ u.returned)
           /\ Emit(u.printed)
    /\ arg_i' = arg_i + 1
    /\ UNCHANGED << argv, exit_code, pc, ret >>
    /\ UNCHANGED main_vars /\ UNCHANGED env_vars

\* case 'h': usage, exit code 0.
ParseHelp ==
    /\ InParse /\ IsSwitch /\ IsHelpFlag(SwitchChar)
    /\ Emit(print_help)
    /\ ReturnFromParse(HelpExitCode)
    /\ UNCHANGED << argv, arg_i, warning_shown, options >>
    /\ UNCHANGED main_vars /\ UNCHANGED env_vars

\* The argument is accepted by no case of the switch: it is not a switch,
\* its character matches no case, or it is /l or /s with nothing after it.
Rejected ==
    \/ ~IsSwitch
    \/ /\ IsSwitch
       /\ ~IsLimitFlag(SwitchChar) /\ ~IsSecondsFlag(SwitchChar)
       /\ ~IsOneshotFlag(SwitchChar) /\ ~IsQuietFlag(SwitchChar)
       /\ ~IsDragraceFlag(SwitchChar) /\ ~IsHelpFlag(SwitchChar)
    \/ /\ IsSwitch
       /\ IsLimitFlag(SwitchChar) \/ IsSecondsFlag(SwitchChar)
       /\ ~(argc > arg_i + 1)

\* Lines 147-149: usage, exit code 1.
ParseError ==
    /\ InParse /\ Rejected
    /\ Emit(print_help)
    /\ ReturnFromParse(UsageExitCode)
    /\ UNCHANGED << argv, arg_i, warning_shown, options >>
    /\ UNCHANGED main_vars /\ UNCHANGED env_vars

\* Lines 152-154: the loop is over, parse_args returns FALSE.
ParseEnd ==
    /\ pc = "parse" /\ ~(arg_i < argc)
    /\ Emit(IF warning_shown THEN << Msg("newline") >> ELSE << >>)
    /\ pc' = "banner"
    /\ UNCHANGED << argv, ret >>
    /\ UNCHANGED parse_vars /\ UNCHANGED main_vars /\ UNCHANGED env_vars

(* ------------------------------------------------------------------ *)
(* main                                                               *)
(* ------------------------------------------------------------------ *)

Max(a, b) == IF a >= b THEN a ELSE b

\* Variant: the quotient without the byte added to it.
BufferSizeQuotient(limit) == ToSizeT(CDiv(CDiv(limit, 2), BITSPERBYTE))

\* Line 209: size = (options.limit / 2) / BITSPERBYTE + 1, stored in a size_t.
BufferSize(limit) == ToSizeT(CDiv(CDiv(limit, 2), BITSPERBYTE) + 1)

\* Line 219: tick_duration = options.seconds * CLK_TCK.
TickDuration(seconds) == seconds * CLK_TCK

\* Variant: a loop condition that never looks at options.oneshot.
KeepRunningTimed(oneshot, start, end, duration) == (end - start) < duration

\* Line 232: the condition of the do-while.
KeepRunning(oneshot, start, end, duration) ==
    ~oneshot /\ (end - start) < duration

\* Lines 225, 236: i += 2.
NextCandidate(n) == n + 2

\* Variant: j += i, which walks the even multiples as well.
NextMultipleByFactor(m, n) == m + n

\* Variant: j is never advanced.
NextMultipleStuck(m, n) == m

\* Line 227: j += 2 * i.
NextMultiple(m, n) == m + 2 * n

\* Line 210: count = 1 (2 is a prime number).
InitialCount == 1

\* Contents of freshly allocated memory: any, here every byte alike.
Garbage == {0, 255}

\* The access to bit n stays inside the buffer of size bytes.
InBuffer(n) == ByteIndex(n) >= 0 /\ ByteIndex(n) < size

\* What reading bit n gives: the bit, or anything outside the buffer.
ReadBit(n) == IF InBuffer(n) THEN {GET_BIT(sieve, n)} ELSE {0, 1}

\* The buffer after setting bit n: a write outside the buffer leaves it as it is.
WriteBit(n) == IF InBuffer(n) THEN SET_BIT(sieve, n) ELSE sieve

Touch(n) == maxbyte' = Max(maxbyte, ByteIndex(n))

\* No access has left the buffer: from an access outside it the behaviour
\* of the program is undefined, and the model follows the run no further.
Defined == maxbyte < size

\* Lines 198-207.
Banner ==
    /\ pc = "banner"
    /\ Emit(IF options.quiet THEN << >>
            ELSE << Msg("banner"),
                    IF options.oneshot THEN Msg("Solving for one pass")
                    ELSE Msg("Solving for seconds") >>)
    /\ pc' = "alloc"
    /\ UNCHANGED << argv, ret >>
    /\ UNCHANGED parse_vars /\ UNCHANGED main_vars /\ UNCHANGED env_vars

\* Lines 209-216, malloc returns NULL.
AllocFail ==
    /\ pc = "alloc"
    /\ size' = BufferSize(options.limit)
    /\ count' = InitialCount
    /\ Emit(<< Msg("Memory allocation failed") >>)
    /\ ret' = << 1 >>
    /\ pc' = "done"
    /\ UNCHANGED << argv, passes, sieve, start_time, end_time, tick_duration,
                    elapsed_time, i, j, valid >>
    /\ UNCHANGED parse_vars /\ UNCHANGED env_vars

\* Lines 209-211, malloc returns a buffer of size bytes.
AllocOk ==
    /\ pc = "alloc"
    /\ size' = BufferSize(options.limit)
    /\ count' = InitialCount
    /\ \E g \in Garbage : sieve' = [k \in 0 .. size' - 1 |-> g]
    /\ pc' = "start"
    /\ UNCHANGED << argv, ret, out, passes, start_time, end_time,
                    tick_duration, elapsed_time, i, j, valid >>
    /\ UNCHANGED parse_vars /\ UNCHANGED env_vars

\* Lines 218-220.
Start ==
    /\ pc = "start"
    /\ passes' = 0
    /\ tick_duration' = TickDuration(options.seconds)
    /\ \E t \in 0 .. MaxClock : start_time' = t /\ now' = t
    /\ pc' = "pass"
    /\ UNCHANGED << argv, ret, out, size, count, sieve, end_time,
                    elapsed_time, i, j, valid >>
    /\ UNCHANGED parse_vars
    /\ UNCHANGED << budget, npass, mono, below, maxbyte >>

\* Line 223 and the initialisation of the for of line 225.
PassStart ==
    /\ pc = "pass"
    /\ sieve' = memset0(size)
    /\ i' = 3
    /\ pc' = "outer"
    /\ UNCHANGED << argv, ret, out, size, count, passes, start_time,
                    end_time, tick_duration, elapsed_time, j, valid >>
    /\ UNCHANGED parse_vars /\ UNCHANGED env_vars

\* Lines 225-227: i is a candidate not marked composite.
OuterEnter ==
    /\ pc = "outer" /\ Defined
    /\ i * i <= options.limit
    /\ 0 \in ReadBit(CDiv(i, 2))
    /\ Touch(CDiv(i, 2))
    /\ j' = i * i
    /\ pc' = "inner"
    /\ UNCHANGED << argv, ret, out, size, count, passes, sieve, start_time,
                    end_time, tick_duration, elapsed_time, i, valid >>
    /\ UNCHANGED parse_vars /\ UNCHANGED << now, budget, npass, mono, below >>

\* Lines 225-226: i is marked composite.
OuterSkip ==
    /\ pc = "outer" /\ Defined
    /\ i * i <= options.limit
    /\ 1 \in ReadBit(CDiv(i, 2))
    /\ Touch(CDiv(i, 2))
    /\ i' = NextCandidate(i)
    /\ UNCHANGED << argv, ret, out, pc, size, count, passes, sieve,
                    start_time, end_time, tick_duration, elapsed_time, j,
                    valid >>
    /\ UNCHANGED parse_vars /\ UNCHANGED << now, budget, npass, mono, below >>

\* Line 225: i * i > limit, the marking is over.
OuterExit ==
    /\ pc = "outer" /\ Defined
    /\ ~(i * i <= options.limit)
    /\ pc' = "passend"
    /\ UNCHANGED << argv, ret, out >>
    /\ UNCHANGED parse_vars /\ UNCHANGED main_vars /\ UNCHANGED env_vars

\* Lines 227-228: mark the multiple j.
InnerMark ==
    /\ pc = "inner" /\ Defined
    /\ j <= options.limit
    /\ sieve' = WriteBit(CDiv(j, 2))
    /\ Touch(CDiv(j, 2))
    /\ j' = NextMultiple(j, i)
    /\ UNCHANGED << argv, ret, out, pc, size, count, passes, start_time,
                    end_time, tick_duration, elapsed_time, i, valid >>
    /\ UNCHANGED parse_vars /\ UNCHANGED << now, budget, npass, mono, below >>

\* Line 227: j > limit, on to the next candidate.
InnerExit ==
    /\ pc = "inner" /\ Defined
    /\ ~(j <= options.limit)
    /\ i' = NextCandidate(i)
    /\ pc' = "outer"
    /\ UNCHANGED << argv, ret, out, size, count, passes, sieve, start_time,
                    end_time, tick_duration, elapsed_time, j, valid >>
    /\ UNCHANGED parse_vars /\ UNCHANGED env_vars

\* Lines 230-231: passes++; end_time = clock().
PassEnd ==
    /\ pc = "passend"
    /\ passes' = ToInt(passes + 1)
    /\ npass' = npass + 1
    /\ \E t \in 0 .. MaxClock :
          /\ end_time' = t
          /\ now' = t
          /\ mono' = (mono /\ t >= now)
    /\ pc' = "while"
    /\ UNCHANGED << argv, ret, out, size, count, sieve, start_time,
                    tick_duration, elapsed_time, i, j, valid >>
    /\ UNCHANGED parse_vars /\ UNCHANGED << budget, below, maxbyte >>

\* Line 232: the condition holds, another pass.
LoopAgain ==
    /\ pc = "while"
    /\ KeepRunning(options.oneshot, start_time, end_time, tick_duration)
    /\ npass < budget
    /\ below' = (below /\ (end_time - start_time) < tick_duration)
    /\ pc' = "pass"
    /\ UNCHANGED << argv, ret, out >>
    /\ UNCHANGED parse_vars /\ UNCHANGED main_vars
    /\ UNCHANGED << now, budget, npass, mono, maxbyte >>

\* Lines 232-236: the loop is left; elapsed_time is kept in ticks
\* (the program divides by CLK_TCK); the counting for starts.
LoopExit ==
    /\ pc = "while"
    /\ ~KeepRunning(options.oneshot, start_time, end_time, tick_duration)
    /\ elapsed_time' = end_time - start_time
    /\ i' = 3
    /\ pc' = "count"
    /\ UNCHANGED << argv, ret, out, size, count, passes, sieve, start_time,
                    end_time, tick_duration, j, valid >>
    /\ UNCHANGED parse_vars /\ UNCHANGED env_vars

\* Lines 236-238: i is not marked composite.
CountPrime ==
    /\ pc = "count" /\ Defined
    /\ i <= options.limit
    /\ 0 \in ReadBit(CDiv(i, 2))
    /\ Touch(CDiv(i, 2))
    /\ count' = count + 1
    /\ i' = NextCandidate(i)
    /\ UNCHANGED << argv, ret, out, pc, size, passes, sieve, start_time,
                    end_time, tick_duration, elapsed_time, j, valid >>
    /\ UNCHANGED parse_vars /\ UNCHANGED << now, budget, npass, mono, below >>

\* Lines 236-237: i is marked composite.
CountSkip ==
    /\ pc = "count" /\ Defined
    /\ i <= options.limit
    /\ 1 \in ReadBit(CDiv(i, 2))
    /\ Touch(CDiv(i, 2))
    /\ i' = NextCandidate(i)
    /\ UNCHANGED << argv, ret, out, pc, size, count, passes, sieve,
                    start_time, end_time, tick_duration, elapsed_time, j,
                    valid >>
    /\ UNCHANGED parse_vars /\ UNCHANGED << now, budget, npass, mono, below >>

\* Lines 236, 240: the counting is over; free(sieve).
CountExit ==
    /\ pc = "count" /\ Defined
    /\ ~(i <= options.limit)
    /\ sieve' = << >>
    /\ pc' = "report"
    /\ UNCHANGED << argv, ret, out, size, count, passes, start_time,
                    end_time, tick_duration, elapsed_time, i, j, valid >>
    /\ UNCHANGED parse_vars /\ UNCHANGED env_vars

\* Lines 242-254: the report; main returns 0.
Report ==
    /\ pc = "report"
    /\ valid' = IF validate_results(options.limit, count) THEN "PASS" ELSE "FAIL"
    /\ Emit((IF options.quiet THEN << >> ELSE << Msg("separator") >>)
            \o << Msg("Total time taken"),
                  Msg("Number of passes"),
                  << "Time per pass",
                     IF passes = 0 THEN "division by zero" ELSE "" >>,
                  Msg("Count of primes found"),
                  << "Prime validator", valid' >> >>
            \o (IF options.dragrace THEN << Msg("davepl") >> ELSE << >>))
    /\ ret' = << 0 >>
    /\ pc' = "done"
    /\ UNCHANGED << argv, size, count, passes, sieve, start_time, end_time,
                    tick_duration, elapsed_time, i, j >>
    /\ UNCHANGED parse_vars /\ UNCHANGED env_vars

Next ==
    \/ ParseLimit \/ ParseSeconds \/ ParseOneshot \/ ParseQuiet
    \/ ParseDragrace \/ ParseHelp \/ ParseError \/ ParseEnd
    \/ Banner \/ AllocFail \/ AllocOk \/ Start
    \/ PassStart \/ OuterEnter \/ OuterSkip \/ OuterExit
    \/ InnerMark \/ InnerExit \/ PassEnd \/ LoopAgain \/ LoopExit
    \/ CountPrime \/ CountSkip \/ CountExit \/ Report

Spec == Init /\ [][Next]_vars

(* ------------------------------------------------------------------ *)
(* Long runs and large limits                                         *)
(* ------------------------------------------------------------------ *)

\* A timed run of the cheapest pass, a limit whose buffer size does not
\* fit size_t, and runs that reach every statement.
WideArgv ==
    { << Flag("l"), NumArg(2), Flag("s"), NumArg(1) >>,
      << Flag("l"), NumArg(1048576), Flag("1") >>,
      << Flag("l"), NumArg(100), Flag("d"), Flag("q"), Flag("1") >>,
      << Flag("h") >>,
      << Flag("z") >> }

\* As many passes as it takes the pass counter to leave the range of int.
InitWide == InitWith(WideArgv, Pow2(INT_BITS - 1))

SpecWide == InitWide /\ [][Next]_vars

\* The program has printed, or is about to print, its report.
AtReport == pc = "report" \/ (pc = "done" /\ valid # "")

\* C3: in every run that reaches the report, passes >= 1 (so the divisor of
\* the time per pass, elapsed_time / passes, is not zero).
C3_PassesAtLeastOne == AtReport => passes >= 1

(* ------------------------------------------------------------------ *)
(* Claims                                                             *)
(* ------------------------------------------------------------------ *)

\* parse_args returned FALSE: main went on to the run.
Parsed == pc # "parse" /\ exit_code = << >>

\* Number of primes <= n, by trial division.
IsPrime(p) == p >= 2 /\ \A d \in 2 .. p - 1 : d * d > p \/ p % d # 0

PrimeCount(n) == Cardinality({ p \in 2 .. n : IsPrime(p) })

\* The limit -> count pairs the specification tabulates.
Tabulated ==
    { << 10, 4 >>, << 100, 25 >>, << 1000, 168 >>, << 10000, 1229 >>,
      << 100000, 9592 >>, << 1000000, 78498 >>, << 10000000, 664579 >> }

C2_OneshotOnePass ==
    (AtReport /\ options.oneshot) => (passes = 1 /\ npass = 1)

\* One-shot with a positive duration the clock had not yet reached, and a
\* clock that ran backwards.
C2_Witness ==
    /\ pc = "report" /\ options.oneshot /\ options.seconds > 0
    /\ end_time - start_time < tick_duration
    /\ ~mono
    /\ passes = 1

\* C4: in Duration mode with a clock that never runs backwards, a further
\* pass is started if and only if the elapsed ticks at the end of the pass
\* before are strictly below seconds * CLK_TCK: at loop exit the elapsed
\* ticks are >= the duration, after every earlier pass they were below it,
\* and the pass counter equals the number of passes completed.
C4_DurationLoop ==
    (Parsed /\ ~options.oneshot /\ mono) =>
        /\ passes = npass
        /\ below
        /\ (pc \in {"count", "report"} \/ AtReport) =>
               end_time - start_time >= options.seconds * CLK_TCK
        /\ (pc \in {"pass", "outer", "inner", "passend"} /\ npass >= 1) =>
               end_time - start_time < options.seconds * CLK_TCK

\* The mode switches among the arguments parse_args has processed, in
\* order (the values of /l and /s are passed over).
RECURSIVE ModeTrail(_, _)
ModeTrail(k, acc) ==
    IF k >= arg_i \/ k > Len(argv) THEN acc
    ELSE LET c == CharAt(argv[k], 1)
         IN  IF c \in {"l", "L", "s", "S"} THEN ModeTrail(k + 2, acc)
             ELSE IF c = "1" THEN ModeTrail(k + 1, Append(acc, "oneshot"))
             ELSE IF c \in {"d", "D"} THEN ModeTrail(k + 1, Append(acc, "dragrace"))
             ELSE ModeTrail(k + 1, acc)

Elements(seq) == { seq[k] : k \in 1 .. Len(seq) }

\* C5: after any sequence of /1 and /d switches, oneshot and dragrace are
\* never both active; when both were given, exactly the one given last is
\* active and a warning has been printed.
C5_ModesExclusive ==
    LET trail == ModeTrail(1, << >>)
    IN  /\ ~(options.oneshot /\ options.dragrace)
        /\ {"oneshot", "dragrace"} \subseteq Elements(trail) =>
              /\ options.oneshot = (trail[Len(trail)] = "oneshot")
              /\ options.dragrace = (trail[Len(trail)] = "dragrace")
              /\ \E k \in 1 .. Len(out) : out[k][1] = ONESHOT_DRAGRACE_MSG

\* /1 /d /1 was parsed: one-shot is active, dragrace is not.
C5_Witness ==
    /\ pc = "banner"
    /\ ModeTrail(1, << >>) = << "oneshot", "dragrace", "oneshot" >>
    /\ options.oneshot /\ ~options.dragrace

\* The first argument, in the order of the scan, that is a help switch or
\* that no case accepts (0 if there is none).
RECURSIVE FirstStop(_)
FirstStop(k) ==
    IF k > Len(argv) THEN 0
    ELSE LET a == argv[k]
             c == IF Len(a) >= 2 THEN a[2] ELSE ""
         IN  IF Len(a) >= 1 /\ a[1] = "/" /\ c \in {"l", "L", "s", "S"}
             THEN IF k + 1 <= Len(argv) THEN FirstStop(k + 2) ELSE k
             ELSE IF Len(a) >= 1 /\ a[1] = "/" /\ c \in {"1", "q", "Q", "d", "D"}
             THEN FirstStop(k + 1)
             ELSE k

StopsAtHelp(k) ==
    /\ Len(argv[k]) >= 2 /\ argv[k][1] = "/" /\ argv[k][2] \in {"h", "H", "?"}

\* C6: a help switch gives the usage text and exit code 0; an unrecognized
\* switch, an argument without '/', or /l or /s without a value gives the
\* usage text and exit code 1; either way no pass runs and no report is
\* printed.
C6_UsageExit ==
    LET k == FirstStop(1)
    IN  k # 0 =>
          /\ pc \in {"parse", "done"}
          /\ npass = 0 /\ passes = 0 /\ valid = ""
          /\ \A n \in 1 .. Len(out) : out[n][1] # "Total time taken"
          /\ pc = "done" =>
                /\ ret = << IF StopsAtHelp(k) THEN 0 ELSE 1 >>
                /\ Len(out) >= 1 /\ out[Len(out)] = << "Usage", "" >>
                /\ Cardinality({ n \in 1 .. Len(out) : out[n][1] = "Usage" }) = 1

\* /l 9 /1 /l: the value of the second /l is missing.
C6_Witness ==
    /\ pc = "done" /\ ret = << 1 >> /\ FirstStop(1) = 4
    /\ argv[4] = << "/", "l" >>
    /\ out[Len(out)] = << "Usage", "" >>

(* ------------------------------------------------------------------ *)
(* validate_results on its own: the report, entered with any limit    *)
(* and any count                                                      *)
(* ------------------------------------------------------------------ *)

TableLimits == { results_dictionary[k].limit : k \in 1 .. Len(results_dictionary) }
TableCounts == { results_dictionary[k].count : k \in 1 .. Len(results_dictionary) }

ValidateLimits == TableLimits \cup {0, 2, 9, 11, 99, 1001}
ValidateCounts == TableCounts \cup {0, 1, 3, 5, 26, 167}

InitValidate ==
    /\ argv = << >>
    /\ arg_i = 1
    /\ warning_shown = FALSE
    /\ \E l \in ValidateLimits, q \in BOOLEAN, d \in BOOLEAN :
          options = [limit |-> l, seconds |-> DEFAULT_SECONDS,
                     oneshot |-> FALSE, dragrace |-> d, quiet |-> q]
    /\ exit_code = << >>
    /\ pc = "report"
    /\ ret = << >>
    /\ out = << >>
    /\ size = 0 /\ passes = 1 /\ sieve = << >>
    /\ count \in ValidateCounts
    /\ start_time = 0 /\ end_time = 0 /\ tick_duration = 0
    /\ elapsed_time = 0
    /\ i = 0 /\ j = 0
    /\ valid = ""
    /\ now = 0
    /\ budget = MaxPasses
    /\ npass = 1
    /\ mono = TRUE
    /\ below = TRUE
    /\ maxbyte = -1

SpecValidate == InitValidate /\ [][Report]_vars

\* C7: validate_results(limit, count) is true if and only if limit is one of
\* the seven table limits and count is the value tabulated for it; it is
\* false for every count when the limit is absent; the run ends the same
\* way whatever it returns.
C7_ValidateIffTabulated ==
    (pc = "done" /\ valid # "") =>
        /\ (valid = "PASS") <=> (<< options.limit, count >> \in Tabulated)
        /\ valid \in {"PASS", "FAIL"}
        /\ ret = << 0 >>
        /\ \E k \in 1 .. Len(out) : out[k] = << "Prime validator", valid >>

\* A table limit with the count tabulated for another limit: FAIL.
C7_Witness ==
    /\ pc = "done" /\ valid = "FAIL"
    /\ options.limit = 100 /\ count = 4

(* ------------------------------------------------------------------ *)
(* The buffer                                                         *)
(* ------------------------------------------------------------------ *)

\* malloc has been called: size is set.
Allocated == Parsed /\ pc \notin {"banner", "alloc"}

CeilDiv(a, b) == (a + b - 1) \div b

\* C8 as stated: for every limit >= 2 the buffer is ceil((limit/2)/8) bytes.
C8_SizeIsCeiling ==
    (Allocated /\ options.limit >= 2) =>
        size = CeilDiv(options.limit \div 2, 8)

\* C8 as amended: for every limit >= 2 the buffer is (limit/2)/8 + 1 bytes,
\* both divisions integer divisions, as stored in the 16-bit size_t.
C8_SizeIsQuotientPlusOne ==
    (Allocated /\ options.limit >= 2) =>
        size = ((options.limit \div 2) \div 8 + 1) % 65536

\* Limit 17: bit 8, for the number 17, needs a second byte.
C8_Witness ==
    /\ Allocated /\ options.limit = 17 /\ size = 2
    /\ pc = "count" /\ maxbyte = 1

\* C9: for every limit >= 2 every bit index read or written by the marking
\* loops and by the counting loop addresses a byte with index < size, the
\* allocated and re-zeroed length.
C9_AccessInBuffer ==
    (Allocated /\ options.limit >= 2) =>
        /\ maxbyte < size
        /\ pc \in {"outer", "inner", "passend", "while", "count"} =>
               DOMAIN sieve = 0 .. size - 1

(* ------------------------------------------------------------------ *)
(* Termination                                                        *)
(* ------------------------------------------------------------------ *)

\* A sequential program: it takes its next step as long as it has one.
SpecLive == Init /\ [][Next]_vars /\ WF_vars(Next)

OutOfBudget ==
    /\ pc = "while" /\ ~options.oneshot
    /\ end_time - start_time < options.seconds * CLK_TCK
    /\ npass >= budget

\* How a run whose arguments parsed ends: with the report and 0, or with
\* the allocation diagnostic, 1 and no report.
EndsWell ==
    /\ pc = "done"
    /\ \/ valid # "" /\ ret = << 0 >>
       \/ /\ valid = "" /\ ret = << 1 >> /\ npass = 0
          /\ out[Len(out)] = << "Memory allocation failed", "" >>

\* The buffer size (limit / 2) / 8 + 1 fits the 16-bit size_t.
SizeFits == (options.limit \div 2) \div 8 + 1 < 65536

====
